---- MODULE Spec2Model ----
(***************************************************************************)
(* EmojiAnalytics (src/analytical_server.py): a minute-bucketing sliding   *)
(* window aggregator.  add_emoji folds events into the open minute and     *)
(* rotates it into the per-emoji and total series when the minute          *)
(* advances; get_emoji_data / get_total_data save the open minute and      *)
(* return the series; get_current_stats sums them.  Every operation runs   *)
(* under one threading.Lock.                                               *)
(*                                                                         *)
(* Spec     : the operations as whole handlers, called one after another.  *)
(* InputSpec: the same calls, each remembered with what it was given.      *)
(* RunSpec  : the same calls in longer runs of queries, the last two       *)
(*            results of each series query remembered.                     *)
(* FairSpec : one writer thread and reader threads, the loops of           *)
(*            _save_minute_data one iteration a step, every thread that    *)
(*            can take a step eventually scheduled.                        *)
(* ConcSpec : the same handlers statement by statement, run by several     *)
(*            threads that contend for the lock.                           *)
(*                                                                         *)
(* A datetime is modelled at the granularity the code uses: a count of     *)
(* whole minutes plus a seconds part, which replace(second=0) drops.       *)
(***************************************************************************)
EXTENDS Integers, Sequences, FiniteSets, TLC

\* ------------------------------------------------------------- bounds
MaxMinute == 4       \* minute keys of events and of the clock are 0..MaxMinute
MaxStart == 1        \* the aggregator is constructed at minute 0..MaxStart
MaxOps == 5          \* calls made in one behaviour of Spec
MaxInputs == 4       \* calls made in one behaviour of InputSpec
MaxRun == 6          \* calls made in one behaviour of RunSpec
MaxAdds == 2         \* add_emoji calls among them
ConcMaxOps == 3      \* calls started in one behaviour of ConcSpec
FairMaxOps == 3      \* calls that change the series or the open minute, in FairSpec

Categories == {"A", "B"}
Seconds == {30}
Threads == {"t1", "t2", "t3"}
ConcMinutes == {0, 1}     \* minute keys of events in ConcSpec
RunMinutes == {0, 3, 4}   \* minute keys of events in RunSpec: one window and more apart
FairMinutes == {0, 4}     \* minute keys of events in FairSpec: more than a window apart
Main == "t1"
NoThread == "none"
Readers == Threads \ {Main}   \* the threads that serve requests

\* ------------------------------------------------------- program state
VARIABLES
  emoji_counts,            \* emoji_type -> sequence of <<minute, count>>
  total_counts,            \* sequence of <<minute, count>>
  current_minute_counts,   \* emoji_type -> count, the keys the dict holds
  current_minute_total,
  last_minute,
  lock,                    \* the thread holding self.lock, or NoThread
  pc,                      \* thread -> position in its handler
  arg,                     \* thread -> the call it is running
  ret,                     \* thread -> the value its latest call returned
  \* ------------------------------------------------ history variables
  init_minute,             \* last_minute as the constructor set it
  nops,                    \* calls started
  nquery,                  \* query calls started
  lastOp,                  \* the kind of the latest call
  recorded,                \* emoji_type -> number of add_emoji calls
  firstKey,                \* minute key of the first add_emoji call, or -1
  sameMinute,              \* every add_emoji call had the minute key firstKey
  consec,                  \* the add_emoji calls had keys firstKey, firstKey+1, ...
  contended,               \* a call started while another thread was inside a call
  lastIn,                  \* what the latest call was given: emoji type, string, clock
  lastTotals,              \* what the last two get_total_data calls returned
  lastEmojis,              \* what the last two get_emoji_data calls returned
  evictedCats,             \* emoji types whose series lost an entry to popleft
  evictedTotal             \* the total series lost an entry to popleft

prog == <<emoji_counts, total_counts, current_minute_counts,
          current_minute_total, last_minute>>
thr == <<lock, pc, arg>>
scen == <<nquery, recorded, firstKey, sameMinute, consec, contended>>
seen == <<lastIn, lastTotals, lastEmojis>>
hist == <<init_minute, nops, lastOp, scen, seen>>
evs == <<evictedCats, evictedTotal>>
vars == <<prog, thr, ret, hist, evs>>

\* window_size_minutes=3, the constructor's default, used by the global instance
window_size == 3

\* ------------------------------------------------------------ helpers
EmptyDict == <<>>

\* the locals of a thread that is in no call
NoCall == [op |-> "none", emoji_type |-> "A", minute |-> 0]

\* what a query, or no call at all, is given
NoInput == [emoji_type |-> "", timestamp_str |-> <<>>, now |-> <<>>]

\* what add_emoji returns
None == <<>>

\* d.get(k, 0)
Get(d, k) == IF k \in DOMAIN d THEN d[k] ELSE 0

\* defaultdict(lambda: deque())[k] read without regard to insertion
SeriesOf(d, k) == IF k \in DOMAIN d THEN d[k] ELSE <<>>

RECURSIVE SumCounts(_)
\* sum(count for _, count in data_points)
SumCounts(s) == IF s = <<>> THEN 0 ELSE s[1][2] + SumCounts(Tail(s))

RECURSIVE SumDict(_, _)
SumDict(d, ks) ==
  IF ks = {} THEN 0
  ELSE LET k == CHOOSE x \in ks : TRUE IN d[k] + SumDict(d, ks \ {k})

\* ------------------------------------------------- timestamps, parsing
\* A timestamp string: valid ISO text naming a minute and a second, or text
\* datetime.fromisoformat rejects.
StrsOf(minutes) == [valid : {TRUE}, minute : minutes, second : Seconds]
ValidStrs == StrsOf(0..MaxMinute)
BadStr == [valid |-> FALSE, minute |-> 0, second |-> 0]
NoClock == [minute |-> 0, second |-> 0]

\* datetime.now(): any instant not before the construction of the aggregator
ClocksOf(minutes) == [minute : {m \in minutes : m >= init_minute}, second : Seconds]
Clocks == ClocksOf(0..MaxMinute)

\* a fallback to a fixed instant in place of the clock
ParseOrEpoch(timestamp_str, now) ==
  IF timestamp_str.valid
    THEN [minute |-> timestamp_str.minute, second |-> timestamp_str.second]
    ELSE [minute |-> 0, second |-> 0]

\* lines 23-27: fromisoformat, or datetime.now() when it raises
ParseTimestamp(timestamp_str, now) ==
  IF timestamp_str.valid
    THEN [minute |-> timestamp_str.minute, second |-> timestamp_str.second]
    ELSE now

\* line 29: timestamp.replace(second=0, microsecond=0)
TruncateMinute(timestamp) == timestamp.minute

\* timestamp.isoformat() of a minute key
IsoFormat(minute) == [valid |-> TRUE, minute |-> minute, second |-> 0]

\* --------------------------------------------------- _save_minute_data
RECURSIVE EvictInclusive(_, _)
\* Evict with the comparison <= in place of <
EvictInclusive(dq, cutoff_time) ==
  IF dq # <<>> /\ dq[1][1] <= cutoff_time THEN EvictInclusive(Tail(dq), cutoff_time) ELSE dq

RECURSIVE Evict(_, _)
\* lines 50-52 / 59-61: while dq and dq[0][0] < cutoff_time: dq.popleft()
Evict(dq, cutoff_time) ==
  IF dq # <<>> /\ dq[1][1] < cutoff_time THEN Evict(Tail(dq), cutoff_time) ELSE dq

\* Cutoff one minute too early
CutoffWide(timestamp) == timestamp - window_size - 1

\* line 49 / 58: cutoff_time = timestamp - timedelta(minutes=self.window_size)
Cutoff(timestamp) == timestamp - window_size

\* an entry for every emoji type known, with or without events
SaveEveryCategory(ec, cmc, timestamp) ==
  [e \in DOMAIN ec \cup DOMAIN cmc |->
     Evict(Append(SeriesOf(ec, e), <<timestamp, Get(cmc, e)>>), Cutoff(timestamp))]

\* lines 46-52: the loop over current_minute_counts.items()
SaveCategories(ec, cmc, timestamp) ==
  [e \in DOMAIN ec \cup DOMAIN cmc |->
     IF e \in DOMAIN cmc
       THEN Evict(Append(SeriesOf(ec, e), <<timestamp, cmc[e]>>), Cutoff(timestamp))
       ELSE ec[e]]

\* the total appended whether or not the minute had an event
SaveTotalAlways(tc, cmt, timestamp) ==
  Evict(Append(tc, <<timestamp, cmt>>), Cutoff(timestamp))

\* lines 55-61
SaveTotal(tc, cmt, timestamp) ==
  IF cmt > 0 THEN Evict(Append(tc, <<timestamp, cmt>>), Cutoff(timestamp)) ELSE tc

\* the emoji types whose series SaveCategories shortened by popleft
PoppedCats(ec, cmc, timestamp) ==
  {e \in DOMAIN cmc :
     Len(SaveCategories(ec, cmc, timestamp)[e]) < Len(SeriesOf(ec, e)) + 1}

PoppedTotal(tc, cmt, timestamp) ==
  cmt > 0 /\ Len(SaveTotal(tc, cmt, timestamp)) < Len(tc) + 1

\* --------------------------------------------------------- add_emoji
\* a comparison that also fires on an earlier minute
MinuteChanged(current_minute) == current_minute # last_minute

\* line 33: if current_minute > self.last_minute
MinuteAdvanced(current_minute) == current_minute > last_minute

\* a reset that leaves the counts in place
KeepCounts(cmc) == cmc

\* line 64: self.current_minute_counts.clear()
ResetCounts(cmc) == EmptyDict

\* an assignment of 1 in place of the increment
CountOnce(cmc, emoji_type) ==
  [e \in DOMAIN cmc \cup {emoji_type} |-> IF e = emoji_type THEN 1 ELSE cmc[e]]

\* line 39: self.current_minute_counts[emoji_type] += 1, on a defaultdict(int)
Increment(cmc, emoji_type) ==
  [e \in DOMAIN cmc \cup {emoji_type} |-> Get(cmc, e) + IF e = emoji_type THEN 1 ELSE 0]

\* ------------------------------------------------------ query results
\* lines 72-81
EmojiDataResult(ec) ==
  [e \in DOMAIN ec |->
     [i \in 1..Len(ec[e]) |-> [timestamp |-> IsoFormat(ec[e][i][1]), count |-> ec[e][i][2]]]]

\* lines 88-94
TotalDataResult(tc) ==
  [i \in 1..Len(tc) |-> [timestamp |-> IsoFormat(tc[i][1]), count |-> tc[i][2]]]

\* lines 98-109
StatsResult(ec, tc, cmc, cmt) ==
  [total_emojis |-> SumCounts(tc) + cmt,
   emoji_breakdown |-> [e \in DOMAIN ec |-> SumCounts(ec[e]) + Get(cmc, e)],
   window_minutes |-> window_size]

\* ------------------------------------------------------------- history
NoteAdd(emoji_type, minute) ==
  /\ nops' = nops + 1
  /\ recorded' = [recorded EXCEPT ![emoji_type] = @ + 1]
  /\ firstKey' = IF firstKey = -1 THEN minute ELSE firstKey
  /\ sameMinute' = (sameMinute /\ (firstKey = -1 \/ minute = firstKey))
  /\ contended' = (contended \/ \E u \in Threads : pc[u] # "idle")
  /\ UNCHANGED <<init_minute, nquery, seen>>

NoteQuery ==
  /\ nops' = nops + 1
  /\ nquery' = nquery + 1
  /\ contended' = (contended \/ \E u \in Threads : pc[u] # "idle")
  /\ UNCHANGED <<init_minute, recorded, firstKey, sameMinute, seen>>

\* lastOp and consec speak of calls made one after another: Spec keeps them
NoteOrder(kind, minute) ==
  /\ lastOp' = kind
  /\ consec' = IF kind = "add"
       THEN (consec /\ nquery = 0
               /\ (firstKey = -1 \/ minute = firstKey + SumDict(recorded, Categories)))
       ELSE consec

\* ---------------------------------------------------------------- Init
Init ==
  /\ emoji_counts = EmptyDict
  /\ total_counts = <<>>
  /\ current_minute_counts = EmptyDict
  /\ current_minute_total = 0
  /\ last_minute \in 0..MaxStart
  /\ lock = NoThread
  /\ pc = [t \in Threads |-> "idle"]
  /\ arg = [t \in Threads |-> NoCall]
  /\ ret = [t \in Threads |-> None]
  /\ init_minute = last_minute
  /\ nops = 0
  /\ nquery = 0
  /\ lastOp = "none"
  /\ recorded = [e \in Categories |-> 0]
  /\ firstKey = -1
  /\ sameMinute = TRUE
  /\ consec = TRUE
  /\ contended = FALSE
  /\ lastIn = NoInput
  /\ lastTotals = <<>>
  /\ lastEmojis = <<>>
  /\ evictedCats = {}
  /\ evictedTotal = FALSE

\* ------------------------------------------------- whole handlers
\* What each handler does to the aggregator and what it returns.  The
\* specifications below add the record they keep of the calls.

\* lines 22-40
add_emoji_body(t, emoji_type, timestamp_str, now) ==
  LET current_minute == TruncateMinute(ParseTimestamp(timestamp_str, now))
      rotate == MinuteAdvanced(current_minute)
      cmc == IF rotate THEN ResetCounts(current_minute_counts) ELSE current_minute_counts
      cmt == IF rotate THEN 0 ELSE current_minute_total
  IN
  /\ emoji_counts' = IF rotate
       THEN SaveCategories(emoji_counts, current_minute_counts, last_minute)
       ELSE emoji_counts
  /\ total_counts' = IF rotate
       THEN SaveTotal(total_counts, current_minute_total, last_minute)
       ELSE total_counts
  /\ evictedCats' = IF rotate
       THEN evictedCats \cup PoppedCats(emoji_counts, current_minute_counts, last_minute)
       ELSE evictedCats
  /\ evictedTotal' = IF rotate
       THEN evictedTotal \/ PoppedTotal(total_counts, current_minute_total, last_minute)
       ELSE evictedTotal
  /\ last_minute' = IF rotate THEN current_minute ELSE last_minute
  /\ current_minute_counts' = Increment(cmc, emoji_type)
  /\ current_minute_total' = cmt + 1
  /\ ret' = [ret EXCEPT ![t] = None]
  /\ UNCHANGED thr

\* lines 67-81
get_emoji_data_body(t) ==
  /\ emoji_counts' = SaveCategories(emoji_counts, current_minute_counts, last_minute)
  /\ total_counts' = SaveTotal(total_counts, current_minute_total, last_minute)
  /\ evictedCats' = evictedCats \cup PoppedCats(emoji_counts, current_minute_counts, last_minute)
  /\ evictedTotal' = (evictedTotal \/ PoppedTotal(total_counts, current_minute_total, last_minute))
  /\ ret' = [ret EXCEPT ![t] = EmojiDataResult(emoji_counts')]
  /\ UNCHANGED <<current_minute_counts, current_minute_total, last_minute, thr>>

\* lines 83-94
get_total_data_body(t) ==
  /\ emoji_counts' = SaveCategories(emoji_counts, current_minute_counts, last_minute)
  /\ total_counts' = SaveTotal(total_counts, current_minute_total, last_minute)
  /\ evictedCats' = evictedCats \cup PoppedCats(emoji_counts, current_minute_counts, last_minute)
  /\ evictedTotal' = (evictedTotal \/ PoppedTotal(total_counts, current_minute_total, last_minute))
  /\ ret' = [ret EXCEPT ![t] = TotalDataResult(total_counts')]
  /\ UNCHANGED <<current_minute_counts, current_minute_total, last_minute, thr>>

\* lines 96-109
get_current_stats_body(t) ==
  /\ ret' = [ret EXCEPT ![t] = StatsResult(emoji_counts, total_counts,
                                           current_minute_counts, current_minute_total)]
  /\ UNCHANGED <<prog, thr, evs>>

\* ------------------------------- calls one after another (Spec)
add_emoji(t, emoji_type, timestamp_str, now) ==
  /\ nops < MaxOps
  /\ add_emoji_body(t, emoji_type, timestamp_str, now)
  /\ NoteAdd(emoji_type, TruncateMinute(ParseTimestamp(timestamp_str, now)))
  /\ NoteOrder("add", TruncateMinute(ParseTimestamp(timestamp_str, now)))

get_emoji_data(t) ==
  /\ nops < MaxOps
  /\ get_emoji_data_body(t)
  /\ NoteQuery
  /\ NoteOrder("emoji", 0)

get_total_data(t) ==
  /\ nops < MaxOps
  /\ get_total_data_body(t)
  /\ NoteQuery
  /\ NoteOrder("total", 0)

get_current_stats(t) ==
  /\ nops < MaxOps
  /\ get_current_stats_body(t)
  /\ NoteQuery
  /\ NoteOrder("stats", 0)

RecordValid == \E e \in Categories, s \in ValidStrs : add_emoji(Main, e, s, NoClock)
RecordMalformed == \E e \in Categories, now \in Clocks : add_emoji(Main, e, BadStr, now)

Next ==
  \/ RecordValid
  \/ RecordMalformed
  \/ get_emoji_data(Main)
  \/ get_total_data(Main)
  \/ get_current_stats(Main)

Spec == Init /\ [][Next]_vars

\* ------------- calls one after another, the latest input kept (InputSpec)
NoteInput(kind, emoji_type, timestamp_str, now) ==
  /\ nops' = nops + 1
  /\ lastOp' = kind
  /\ lastIn' = [emoji_type |-> emoji_type, timestamp_str |-> timestamp_str, now |-> now]
  /\ UNCHANGED <<init_minute, scen, lastTotals, lastEmojis>>

InputAdd(emoji_type, timestamp_str, now) ==
  /\ nops < MaxInputs
  /\ add_emoji_body(Main, emoji_type, timestamp_str, now)
  /\ NoteInput("add", emoji_type, timestamp_str, now)

InputRecordValid == \E e \in Categories, s \in ValidStrs : InputAdd(e, s, NoClock)
InputRecordMalformed == \E e \in Categories, now \in Clocks : InputAdd(e, BadStr, now)

InputEmojiData ==
  /\ nops < MaxInputs
  /\ get_emoji_data_body(Main)
  /\ NoteInput("emoji", "", <<>>, <<>>)

InputTotalData ==
  /\ nops < MaxInputs
  /\ get_total_data_body(Main)
  /\ NoteInput("total", "", <<>>, <<>>)

InputCurrentStats ==
  /\ nops < MaxInputs
  /\ get_current_stats_body(Main)
  /\ NoteInput("stats", "", <<>>, <<>>)

InputNext ==
  \/ InputRecordValid
  \/ InputRecordMalformed
  \/ InputEmojiData
  \/ InputTotalData
  \/ InputCurrentStats

InputSpec == Init /\ [][InputNext]_vars

\* --------- calls one after another, the latest results kept (RunSpec)
\* the results of the last two calls of one query, the older first
LastTwo(results, result) ==
  IF results = <<>> THEN <<result>> ELSE <<results[Len(results)], result>>

NoteRun(kind) ==
  /\ nops' = nops + 1
  /\ nquery' = IF kind = "add" THEN nquery ELSE nquery + 1
  /\ lastOp' = kind
  /\ lastTotals' = IF kind = "total" THEN LastTwo(lastTotals, ret'[Main]) ELSE lastTotals
  /\ lastEmojis' = IF kind = "emoji" THEN LastTwo(lastEmojis, ret'[Main]) ELSE lastEmojis
  /\ UNCHANGED <<init_minute, recorded, firstKey, sameMinute, consec, contended, lastIn>>

RunAdd(emoji_type, timestamp_str, now) ==
  /\ nops < MaxRun
  /\ nops - nquery < MaxAdds
  /\ add_emoji_body(Main, emoji_type, timestamp_str, now)
  /\ NoteRun("add")

RunRecordValid == \E e \in Categories, s \in StrsOf(RunMinutes) : RunAdd(e, s, NoClock)
RunRecordMalformed ==
  \E e \in Categories, now \in ClocksOf(RunMinutes) : RunAdd(e, BadStr, now)

RunEmojiData ==
  /\ nops < MaxRun
  /\ get_emoji_data_body(Main)
  /\ NoteRun("emoji")

RunTotalData ==
  /\ nops < MaxRun
  /\ get_total_data_body(Main)
  /\ NoteRun("total")

RunCurrentStats ==
  /\ nops < MaxRun
  /\ get_current_stats_body(Main)
  /\ NoteRun("stats")

RunNext ==
  \/ RunRecordValid
  \/ RunRecordMalformed
  \/ RunEmojiData
  \/ RunTotalData
  \/ RunCurrentStats

RunSpec == Init /\ [][RunNext]_vars

\* ------------------------------- statement by statement (ConcSpec)
CSLabels == {"check", "save_cat", "save_tot", "reset", "set_last",
             "inc_cat", "inc_tot", "read", "unlock"}

InCS(t) == pc[t] \in CSLabels

Goto(t, label) == pc' = [pc EXCEPT ![t] = label]

\* a lock that never blocks
LockNeverHeld == TRUE

\* threading.Lock.acquire succeeds only on an unlocked lock
LockFree == lock = NoThread

\* lines 22-29: the timestamp is parsed and truncated before the lock is taken
CallAdd(t, emoji_type, timestamp_str, now) ==
  /\ pc[t] = "idle"
  /\ nops < ConcMaxOps
  /\ arg' = [arg EXCEPT ![t] =
       [op |-> "add", emoji_type |-> emoji_type,
        minute |-> TruncateMinute(ParseTimestamp(timestamp_str, now))]]
  /\ Goto(t, "lock")
  /\ NoteAdd(emoji_type, arg'[t].minute)
  /\ UNCHANGED <<prog, lock, ret, evs, lastOp, consec>>

\* a query handler is entered: get_emoji_data, get_total_data, get_current_stats
CallQuery(t, kind) ==
  /\ pc[t] = "idle"
  /\ nops < ConcMaxOps
  /\ arg' = [arg EXCEPT ![t] = [op |-> kind, emoji_type |-> "A", minute |-> 0]]
  /\ Goto(t, "lock")
  /\ NoteQuery
  /\ UNCHANGED <<prog, lock, ret, evs, lastOp, consec>>

\* with self.lock: (lines 31, 68, 84, 97)
Acquire(t) ==
  /\ pc[t] = "lock"
  /\ LockFree
  /\ lock' = t
  /\ Goto(t, CASE arg[t].op = "add" -> "check"
               [] arg[t].op = "stats" -> "read"
               [] OTHER -> "save_cat")
  /\ UNCHANGED <<prog, arg, ret, hist, evs>>

\* line 33: if current_minute > self.last_minute
Check(t) ==
  /\ pc[t] = "check"
  /\ Goto(t, IF MinuteAdvanced(arg[t].minute) THEN "save_cat" ELSE "inc_cat")
  /\ UNCHANGED <<prog, lock, arg, ret, hist, evs>>

\* lines 46-52
SaveCat(t) ==
  /\ pc[t] = "save_cat"
  /\ emoji_counts' = SaveCategories(emoji_counts, current_minute_counts, last_minute)
  /\ evictedCats' = evictedCats \cup PoppedCats(emoji_counts, current_minute_counts, last_minute)
  /\ Goto(t, "save_tot")
  /\ UNCHANGED <<total_counts, current_minute_counts, current_minute_total, last_minute,
                 lock, arg, ret, hist, evictedTotal>>

\* lines 55-61, then back in the caller
SaveTot(t) ==
  /\ pc[t] = "save_tot"
  /\ total_counts' = SaveTotal(total_counts, current_minute_total, last_minute)
  /\ evictedTotal' = (evictedTotal \/ PoppedTotal(total_counts, current_minute_total, last_minute))
  /\ Goto(t, IF arg[t].op = "add" THEN "reset" ELSE "read")
  /\ UNCHANGED <<emoji_counts, current_minute_counts, current_minute_total, last_minute,
                 lock, arg, ret, hist, evictedCats>>

\* lines 63-65
Reset(t) ==
  /\ pc[t] = "reset"
  /\ current_minute_counts' = ResetCounts(current_minute_counts)
  /\ current_minute_total' = 0
  /\ Goto(t, "set_last")
  /\ UNCHANGED <<emoji_counts, total_counts, last_minute, lock, arg, ret, hist, evs>>

\* line 36
SetLast(t) ==
  /\ pc[t] = "set_last"
  /\ last_minute' = arg[t].minute
  /\ Goto(t, "inc_cat")
  /\ UNCHANGED <<emoji_counts, total_counts, current_minute_counts, current_minute_total,
                 lock, arg, ret, hist, evs>>

\* line 39
IncCat(t) ==
  /\ pc[t] = "inc_cat"
  /\ current_minute_counts' = Increment(current_minute_counts, arg[t].emoji_type)
  /\ Goto(t, "inc_tot")
  /\ UNCHANGED <<emoji_counts, total_counts, current_minute_total, last_minute,
                 lock, arg, ret, hist, evs>>

\* line 40
IncTot(t) ==
  /\ pc[t] = "inc_tot"
  /\ Goto(t, "unlock")
  /\ current_minute_total' = current_minute_total + 1
  /\ ret' = [ret EXCEPT ![t] = None]
  /\ UNCHANGED <<emoji_counts, total_counts, current_minute_counts, last_minute,
                 lock, arg, hist, evs>>

\* lines 72-81, 88-94, 98-109: the value the query returns
Read(t) ==
  /\ pc[t] = "read"
  /\ Goto(t, "unlock")
  /\ ret' = [ret EXCEPT ![t] =
       CASE arg[t].op = "emoji" -> EmojiDataResult(emoji_counts)
         [] arg[t].op = "total" -> TotalDataResult(total_counts)
         [] OTHER -> StatsResult(emoji_counts, total_counts,
                                 current_minute_counts, current_minute_total)]
  /\ UNCHANGED <<prog, lock, arg, hist, evs>>

\* leaving the with block
Release(t) ==
  /\ pc[t] = "unlock"
  /\ lock' = NoThread
  /\ arg' = [arg EXCEPT ![t] = NoCall]
  /\ Goto(t, "idle")
  /\ UNCHANGED <<prog, ret, hist, evs>>

ConcRecordValid ==
  \E t \in Threads, e \in Categories, s \in StrsOf(ConcMinutes) : CallAdd(t, e, s, NoClock)
ConcRecordMalformed ==
  \E t \in Threads, e \in Categories, now \in ClocksOf(ConcMinutes) : CallAdd(t, e, BadStr, now)
ConcQuery == \E t \in Threads, kind \in {"emoji", "total", "stats"} : CallQuery(t, kind)

ConcNext ==
  \/ ConcRecordValid
  \/ ConcRecordMalformed
  \/ ConcQuery
  \/ \E t \in Threads : Acquire(t)
  \/ \E t \in Threads : Check(t)
  \/ \E t \in Threads : SaveCat(t)
  \/ \E t \in Threads : SaveTot(t)
  \/ \E t \in Threads : Reset(t)
  \/ \E t \in Threads : SetLast(t)
  \/ \E t \in Threads : IncCat(t)
  \/ \E t \in Threads : IncTot(t)
  \/ \E t \in Threads : Read(t)
  \/ \E t \in Threads : Release(t)

ConcSpec == Init /\ [][ConcNext]_vars

\* ------------- one writer, readers, loops by iteration (FairSpec)
\* The locals of a call: those of add_emoji and, in done and item, the
\* emoji types the for loop of _save_minute_data has visited and the one
\* it is at.
FairCall(op, emoji_type, minute) ==
  [op |-> op, emoji_type |-> emoji_type, minute |-> minute, done |-> {}, item |-> "A"]

\* lines 125-130: the consumer thread is the one caller of add_emoji
FairCallAdd(emoji_type, timestamp_str, now) ==
  /\ pc[Main] = "idle"
  /\ nops < FairMaxOps
  /\ arg' = [arg EXCEPT ![Main] =
       FairCall("add", emoji_type, TruncateMinute(ParseTimestamp(timestamp_str, now)))]
  /\ Goto(Main, "lock")
  /\ nops' = nops + 1
  /\ UNCHANGED <<prog, lock, ret, init_minute, lastOp, scen, seen, evs>>

\* lines 137-145: a request thread enters get_emoji_data or get_total_data
FairCallSeries(t, kind) ==
  /\ pc[t] = "idle"
  /\ nops < FairMaxOps
  /\ arg' = [arg EXCEPT ![t] = FairCall(kind, "A", 0)]
  /\ Goto(t, "lock")
  /\ nops' = nops + 1
  /\ UNCHANGED <<prog, lock, ret, init_minute, lastOp, scen, seen, evs>>

\* lines 147-150: a request thread enters get_current_stats, which changes
\* nothing; such calls are not counted and may go on for ever
FairCallStats(t) ==
  /\ pc[t] = "idle"
  /\ arg' = [arg EXCEPT ![t] = FairCall("stats", "A", 0)]
  /\ Goto(t, "lock")
  /\ UNCHANGED <<prog, lock, ret, hist, evs>>

\* a popleft that removes nothing
KeepLeft(dq) == dq

\* lines 52 / 61: deque.popleft()
PopLeft(dq) == Tail(dq)

\* lines 46-47: the for loop takes its next item and appends, or ends
IterCat(t) ==
  /\ pc[t] = "save_cat"
  /\ LET rest == DOMAIN current_minute_counts \ arg[t].done IN
       IF rest = {}
         THEN /\ Goto(t, "save_tot")
              /\ UNCHANGED <<emoji_counts, arg>>
         ELSE \E e \in rest :
              /\ emoji_counts' =
                   [x \in DOMAIN emoji_counts \cup {e} |->
                      IF x = e
                        THEN Append(SeriesOf(emoji_counts, e),
                                    <<last_minute, current_minute_counts[e]>>)
                        ELSE emoji_counts[x]]
              /\ arg' = [arg EXCEPT ![t].done = @ \cup {e}, ![t].item = e]
              /\ Goto(t, "evict_cat")
  /\ UNCHANGED <<total_counts, current_minute_counts, current_minute_total, last_minute,
                 lock, ret, hist, evs>>

\* lines 49-52: one test of the while loop, and one popleft when it holds
EvictCat(t) ==
  /\ pc[t] = "evict_cat"
  /\ LET dq == emoji_counts[arg[t].item] IN
       IF dq # <<>> /\ dq[1][1] < Cutoff(last_minute)
         THEN /\ emoji_counts' = [emoji_counts EXCEPT ![arg[t].item] = PopLeft(dq)]
              /\ UNCHANGED pc
         ELSE /\ Goto(t, "save_cat")
              /\ UNCHANGED emoji_counts
  /\ UNCHANGED <<total_counts, current_minute_counts, current_minute_total, last_minute,
                 lock, arg, ret, hist, evs>>

\* the statement after _save_minute_data, in the handler that called it
AfterSave(t) == IF arg[t].op = "add" THEN "reset" ELSE "read"

\* lines 55-56
AppendTot(t) ==
  /\ pc[t] = "save_tot"
  /\ IF current_minute_total > 0
       THEN /\ total_counts' = Append(total_counts, <<last_minute, current_minute_total>>)
            /\ Goto(t, "evict_tot")
       ELSE /\ Goto(t, AfterSave(t))
            /\ UNCHANGED total_counts
  /\ UNCHANGED <<emoji_counts, current_minute_counts, current_minute_total, last_minute,
                 lock, arg, ret, hist, evs>>

\* lines 58-61
EvictTot(t) ==
  /\ pc[t] = "evict_tot"
  /\ IF total_counts # <<>> /\ total_counts[1][1] < Cutoff(last_minute)
       THEN /\ total_counts' = PopLeft(total_counts)
            /\ UNCHANGED pc
       ELSE /\ Goto(t, AfterSave(t))
            /\ UNCHANGED total_counts
  /\ UNCHANGED <<emoji_counts, current_minute_counts, current_minute_total, last_minute,
                 lock, arg, ret, hist, evs>>

\* leaving the with block and returning: the caller takes the value
\* (lines 130, 140, 145, 150) and the thread keeps none
FairReturn(t) ==
  /\ pc[t] = "unlock"
  /\ lock' = NoThread
  /\ arg' = [arg EXCEPT ![t] = NoCall]
  /\ Goto(t, "idle")
  /\ ret' = [ret EXCEPT ![t] = None]
  /\ UNCHANGED <<prog, hist, evs>>

\* the next statement of thread t, once its call has started
FairStep(t) ==
  \/ Acquire(t)
  \/ Check(t)
  \/ IterCat(t)
  \/ EvictCat(t)
  \/ AppendTot(t)
  \/ EvictTot(t)
  \/ Reset(t)
  \/ SetLast(t)
  \/ IncCat(t)
  \/ IncTot(t)
  \/ Read(t)
  \/ FairReturn(t)

FairRecordValid ==
  \E e \in Categories, s \in StrsOf(FairMinutes) : FairCallAdd(e, s, NoClock)
FairRecordMalformed ==
  \E e \in Categories, now \in ClocksOf(FairMinutes) : FairCallAdd(e, BadStr, now)
FairQuerySeries == \E t \in Readers, kind \in {"emoji", "total"} : FairCallSeries(t, kind)
FairQueryStats == \E t \in Readers : FairCallStats(t)

FairNext ==
  \/ FairRecordValid
  \/ FairRecordMalformed
  \/ FairQuerySeries
  \/ FairQueryStats
  \/ \E t \in Threads : FairStep(t)

\* A thread whose next statement can run is eventually run.  Nothing makes
\* a caller call, and threading.Lock promises no order among its waiters.
\* Every statement changes the aggregator or the thread's position.
FairSpec ==
  /\ Init
  /\ [][FairNext]_vars
  /\ \A t \in Threads : WF_<<prog, thr>>(FairStep(t))

\* ============================================================ claims
Queries == {"emoji", "total", "stats"}
AllSeries == {total_counts} \cup {emoji_counts[e] : e \in DOMAIN emoji_counts}
NumRecorded == SumDict(recorded, Categories)
AllIdle == \A t \in Threads : pc[t] = "idle"
\* this step is one whole call of Spec
OneCall == nops' = nops + 1

RECURSIVE SumResult(_)
\* the sum of the counts of a returned series
SumResult(r) == IF r = <<>> THEN 0 ELSE r[1].count + SumResult(Tail(r))

\* C1: a query repeated with no add_emoji in between returns the same value
\* as the first time, and its save appends nothing and evicts nothing.
C1_QueryIdempotent ==
  [][(OneCall /\ lastOp \in Queries /\ lastOp' = lastOp)
       => /\ ret'[Main] = ret[Main]
          /\ emoji_counts' = emoji_counts
          /\ total_counts' = total_counts]_vars

\* C2: every per-emoji series and the total series has strictly ascending
\* minute keys, hence no minute key twice.
C2_StrictlyAscending ==
  \A dq \in AllSeries : \A i, j \in 1..Len(dq) : i < j => dq[i][1] < dq[j][1]

\* C3: for an emoji type none of whose entries was evicted, the counts kept in
\* its series plus its count in the open minute equal its add_emoji calls.
C3_Conservation ==
  \A e \in Categories :
    e \notin evictedCats =>
      SumCounts(SeriesOf(emoji_counts, e)) + Get(current_minute_counts, e) = recorded[e]

\* The case of C4: from the empty aggregator whose last_minute is not later
\* than m, one add_emoji in each of the minutes m .. m+window_size in turn,
\* then get_total_data, and nothing else.
ScenarioA ==
  /\ consec
  /\ NumRecorded = window_size + 1
  /\ init_minute <= firstKey
  /\ nquery = 1
  /\ lastOp = "total"

\* C4 as stated: get_total_data then returns the window_size minutes
\* m+1 .. m+window_size, minute m evicted.
C4_ScenarioA_Original ==
  ScenarioA =>
    ret[Main] = TotalDataResult([i \in 1..window_size |-> <<firstKey + i, 1>>])

\* C4 amended: get_total_data then returns the window_size + 1 minutes
\* m .. m+window_size, one event each; minute m is the cutoff and is kept.
C4_ScenarioA_Amended ==
  ScenarioA =>
    ret[Main] = TotalDataResult([i \in 1..(window_size + 1) |-> <<firstKey + i - 1, 1>>])

C4_Witness == ScenarioA /\ firstKey = 1 /\ Len(total_counts) = window_size + 1

\* C5: with no add_emoji in between, total_emojis of get_current_stats equals
\* the sum of the counts get_total_data returns, in either order of the calls.
C5_SummaryAgreesWithTotal ==
  [][/\ (OneCall /\ lastOp = "stats" /\ lastOp' = "total")
          => SumResult(ret'[Main]) = ret[Main].total_emojis
     /\ (OneCall /\ lastOp = "total" /\ lastOp' = "stats")
          => ret'[Main].total_emojis = SumResult(ret[Main])]_vars

\* C6: right after a save that closes minute k with a non-empty open minute,
\* no entry of the total series or of any per-emoji series is older than
\* k - window_size.
C6_StaleEvictedEverywhere ==
  [][(/\ OneCall
      /\ current_minute_total > 0
      /\ (lastOp' \in {"emoji", "total"} \/ last_minute' > last_minute))
       => /\ \A i \in 1..Len(total_counts') : total_counts'[i][1] >= last_minute - window_size
          /\ \A e \in DOMAIN emoji_counts' : \A i \in 1..Len(emoji_counts'[e]) :
               emoji_counts'[e][i][1] >= last_minute - window_size]_vars

\* C7: in every series, no entry is more than window_size minutes older than
\* the latest entry of that same series.
C7_WindowBound ==
  \A dq \in AllSeries : \A i \in 1..Len(dq) : dq[Len(dq)][1] - dq[i][1] <= window_size

C7_Witness ==
  \E e \in evictedCats :
    /\ Len(emoji_counts[e]) >= 2
    /\ emoji_counts[e][Len(emoji_counts[e])][1] - emoji_counts[e][1][1] = window_size

\* C8: when concurrent add_emoji calls, all with the same minute key and with
\* no query among them, have all returned, the open minute counts each emoji
\* type exactly as often as add_emoji was called for it, and the open-minute
\* total is the number of calls.
C8_NoLostUpdates ==
  (AllIdle /\ nquery = 0 /\ sameMinute) =>
    /\ \A e \in Categories : Get(current_minute_counts, e) = recorded[e]
    /\ current_minute_total = NumRecorded

C8_Witness ==
  /\ AllIdle /\ nquery = 0 /\ sameMinute /\ contended
  /\ recorded["A"] = ConcMaxOps
  /\ last_minute > init_minute

\* C9: at most one call is inside the critical section, only the holder of
\* the lock is inside it, and the value a query is about to return is the
\* state at that instant: no other thread is part-way through a rotation.
C9_AtomicSnapshots ==
  /\ \A t, u \in Threads : (t # u /\ InCS(t)) => ~InCS(u)
  /\ \A t \in Threads : InCS(t) <=> lock = t
  /\ \A t \in Threads :
       (pc[t] = "unlock" /\ arg[t].op = "emoji") => ret[t] = EmojiDataResult(emoji_counts)
  /\ \A t \in Threads :
       (pc[t] = "unlock" /\ arg[t].op = "total") => ret[t] = TotalDataResult(total_counts)
  /\ \A t \in Threads :
       (pc[t] = "unlock" /\ arg[t].op = "stats") =>
         ret[t] = StatsResult(emoji_counts, total_counts,
                              current_minute_counts, current_minute_total)

C9_Witness ==
  \E t, u, v \in Threads :
    /\ pc[t] = "read"
    /\ pc[u] = "lock" /\ arg[u].op = "add" /\ arg[u].minute > last_minute
    /\ pc[v] = "lock" /\ arg[v].op \in Queries

\* C10: from the empty aggregator, after add_emoji calls that all have one
\* minute key and no earlier query, get_current_stats returns total_emojis
\* equal to the number of calls and emoji_breakdown mapping each recorded
\* emoji type to the number of its calls.
C10_SummaryIncludesOpenMinute ==
  (lastOp = "stats" /\ nquery = 1 /\ sameMinute /\ firstKey # -1) =>
    /\ ret[Main].total_emojis = NumRecorded
    /\ DOMAIN ret[Main].emoji_breakdown = {e \in Categories : recorded[e] > 0}
    /\ \A e \in DOMAIN ret[Main].emoji_breakdown :
         ret[Main].emoji_breakdown[e] = recorded[e]

\* ------------------------------------------------ claims on one call
\* the minute key a call was given: that of its string, or of the clock when
\* the string does not parse
InputMinute(in) ==
  IF in.timestamp_str.valid THEN in.timestamp_str.minute ELSE in.now.minute

\* the open minute after one more event of emoji_type, nothing else changed
OneMoreEvent(emoji_type) ==
  /\ DOMAIN current_minute_counts' = DOMAIN current_minute_counts \cup {emoji_type}
  /\ current_minute_counts'[emoji_type] = Get(current_minute_counts, emoji_type) + 1
  /\ \A e \in DOMAIN current_minute_counts \ {emoji_type} :
       current_minute_counts'[e] = current_minute_counts[e]
  /\ current_minute_total' = current_minute_total + 1

\* new is old with entry appended, less some entries popped from the front
AppendedTo(old, entry, new) ==
  /\ new # <<>>
  /\ new[Len(new)] = entry
  /\ \E n \in 0..Len(old) : new = SubSeq(Append(old, entry), n + 1, Len(old) + 1)

\* C11: an add_emoji call whose minute key is not later than last_minute
\* rotates nothing: last_minute and every series stay as they are, and only
\* the count of its emoji type and the open-minute total grow, each by 1.
C11_LateEventsFold ==
  [][(OneCall /\ lastOp' = "add" /\ InputMinute(lastIn') <= last_minute)
       => /\ last_minute' = last_minute
          /\ emoji_counts' = emoji_counts
          /\ total_counts' = total_counts
          /\ OneMoreEvent(lastIn'.emoji_type)]_vars

C11_Witness ==
  /\ lastOp = "add"
  /\ InputMinute(lastIn) < last_minute
  /\ total_counts # <<>>
  /\ current_minute_total >= 2

\* C12: an add_emoji call with an unparseable timestamp is processed as the
\* call with the clock's reading as its timestamp: when the clock's minute
\* is later than last_minute the open minute is rotated first, and in either
\* case the count of the emoji type and the open-minute total are one more
\* than they were after that.
C12_MalformedFallback ==
  [][(OneCall /\ lastOp' = "add" /\ ~lastIn'.timestamp_str.valid)
       => /\ add_emoji_body(Main, lastIn'.emoji_type,
                            [valid |-> TRUE, minute |-> lastIn'.now.minute,
                             second |-> lastIn'.now.second], NoClock)
          /\ IF lastIn'.now.minute > last_minute
               THEN /\ last_minute' = lastIn'.now.minute
                    /\ current_minute_counts' = [e \in {lastIn'.emoji_type} |-> 1]
                    /\ current_minute_total' = 1
               ELSE /\ last_minute' = last_minute
                    /\ OneMoreEvent(lastIn'.emoji_type)]_vars

C12_Witness ==
  /\ lastOp = "add"
  /\ ~lastIn.timestamp_str.valid
  /\ last_minute = lastIn.now.minute
  /\ last_minute > init_minute
  /\ current_minute_total = 1
  /\ total_counts # <<>>

\* C17: an add_emoji call for emoji type c whose minute key k is later than
\* last_minute = p appends (p, count) to the series of every emoji type of
\* the open minute and (p, total) to the total series when the total is
\* positive, leaves the other series alone, sets last_minute to k, and
\* leaves the open minute with count 1 for c, no other emoji type, total 1.
C17_RotationOnAdvance ==
  [][(OneCall /\ lastOp' = "add" /\ InputMinute(lastIn') > last_minute)
       => /\ \A e \in DOMAIN current_minute_counts :
               AppendedTo(SeriesOf(emoji_counts, e),
                          <<last_minute, current_minute_counts[e]>>, emoji_counts'[e])
          /\ \A e \in DOMAIN emoji_counts' \ DOMAIN current_minute_counts :
               e \in DOMAIN emoji_counts /\ emoji_counts'[e] = emoji_counts[e]
          /\ IF current_minute_total > 0
               THEN AppendedTo(total_counts, <<last_minute, current_minute_total>>,
                               total_counts')
               ELSE total_counts' = total_counts
          /\ last_minute' = InputMinute(lastIn')
          /\ current_minute_counts' = [e \in {lastIn'.emoji_type} |-> 1]
          /\ current_minute_total' = 1]_vars

C17_Witness ==
  /\ lastOp = "add"
  /\ lastIn.timestamp_str.valid
  /\ InputMinute(lastIn) = last_minute
  /\ current_minute_total = 1
  /\ DOMAIN emoji_counts = Categories
  /\ total_counts # <<>>
  /\ total_counts[Len(total_counts)][2] >= 2

\* ------------------------------------------- claims on runs of calls
RECURSIVE SumAt(_, _)
\* the counts of the entries of series s with minute key m, added up
SumAt(s, m) ==
  IF s = <<>> THEN 0
  ELSE (IF s[1][1] = m THEN s[1][2] ELSE 0) + SumAt(Tail(s), m)

\* C13: while add_emoji has never been called, whatever queries were made,
\* get_emoji_data returned an empty mapping, get_total_data an empty
\* sequence, get_current_stats total 0, an empty breakdown and the
\* configured window, and no series holds or ever held an entry.
C13_EmptyStateQueries ==
  NumRecorded = 0 =>
    /\ emoji_counts = EmptyDict
    /\ total_counts = <<>>
    /\ lastOp = "emoji" => ret[Main] = EmptyDict
    /\ lastOp = "total" => ret[Main] = <<>>
    /\ lastOp = "stats" =>
         ret[Main] = [total_emojis |-> 0, emoji_breakdown |-> EmptyDict,
                      window_minutes |-> window_size]

C13_Witness ==
  /\ NumRecorded = 0
  /\ nquery >= 3
  /\ lastOp = "stats"
  /\ ret[Main].window_minutes = 3

\* the minute key of an entry of a query result
KeyOf(entry) == TruncateMinute(ParseTimestamp(entry.timestamp, NoClock))

LatestKey(result) ==
  CHOOSE k \in {KeyOf(result[i]) : i \in DOMAIN result} :
    \A i \in DOMAIN result : KeyOf(result[i]) <= k

Occurrences(result, entry) == Cardinality({i \in DOMAIN result : result[i] = entry})

\* every entry of first not older than the latest key of second less the
\* window is in second, as many times as it is in first
Retained(first, second) ==
  first # <<>> =>
    /\ second # <<>>
    /\ \A i \in DOMAIN first :
         KeyOf(first[i]) >= LatestKey(second) - window_size
           => Occurrences(second, first[i]) >= Occurrences(first, first[i])

\* C14: of two get_total_data calls with no other get_total_data call
\* between them (add_emoji and other calls may be), the second returns
\* every entry of the first whose minute key is not older than the latest
\* key of the second less window_size, with the same count; likewise for
\* every series of two get_emoji_data calls.
C14_QueriesMonotone ==
  /\ Len(lastTotals) = 2 => Retained(lastTotals[1], lastTotals[2])
  /\ Len(lastEmojis) = 2 =>
       \A e \in DOMAIN lastEmojis[1] :
         /\ e \in DOMAIN lastEmojis[2]
         /\ Retained(lastEmojis[1][e], lastEmojis[2][e])

C14_Witness ==
  /\ Len(lastTotals) = 2
  /\ lastTotals[1] # <<>>
  /\ Len(lastTotals[2]) > Len(lastTotals[1])
  /\ KeyOf(lastTotals[1][1]) = LatestKey(lastTotals[2]) - window_size
  /\ KeyOf(lastTotals[2][1]) = KeyOf(lastTotals[1][1])

\* C15: every entry of every series has a count of at least 1; a call made
\* while the open minute has no event appends nothing, and no call appends
\* to the series of an emoji type that has no event in the open minute.
C15_NoZeroCounts ==
  [][/\ \A s \in AllSeries' : \A i \in DOMAIN s : s[i][2] >= 1
     /\ (OneCall /\ current_minute_total = 0)
          => (emoji_counts' = emoji_counts /\ total_counts' = total_counts)
     /\ OneCall
          => \A e \in Categories \ DOMAIN current_minute_counts :
               SeriesOf(emoji_counts', e) = SeriesOf(emoji_counts, e)]_vars

C15_Witness ==
  /\ nquery = 0
  /\ DOMAIN emoji_counts = {"A"}
  /\ Len(emoji_counts["A"]) = 2
  /\ Len(total_counts) = 2
  /\ DOMAIN current_minute_counts = {"B"}

\* C16: last_minute is at least the minute key of every entry of every
\* series, and no call, an add_emoji with an earlier timestamp included,
\* makes last_minute smaller.
C16_OpenMinuteOrdering ==
  [][/\ last_minute' >= last_minute
     /\ \A s \in AllSeries' : \A i \in DOMAIN s : s[i][1] <= last_minute']_vars

C16_Witness ==
  /\ firstKey = last_minute
  /\ last_minute > init_minute
  /\ ~sameMinute
  /\ total_counts # <<>>
  /\ total_counts[Len(total_counts)][1] = last_minute

\* C18: in what get_current_stats returns, total_emojis is the sum of the
\* values of emoji_breakdown.
C18_SummaryTotalsConsistent ==
  lastOp = "stats" =>
    ret[Main].total_emojis
      = SumDict(ret[Main].emoji_breakdown, DOMAIN ret[Main].emoji_breakdown)

\* C19: the total series and every per-emoji series hold at most
\* window_size + 1 entries, however many queries were made.
C19_BoundedSeries ==
  \A s \in AllSeries : Len(s) <= window_size + 1

\* C20: for every minute key m of the total series, the counts of the
\* per-emoji entries with key m add up to the counts of the total entries
\* with key m.
C20_SeriesAgreePerMinute ==
  \A m \in {total_counts[i][1] : i \in DOMAIN total_counts} :
    SumDict([e \in DOMAIN emoji_counts |-> SumAt(emoji_counts[e], m)],
            DOMAIN emoji_counts)
      = SumAt(total_counts, m)

C20_Witness ==
  /\ Len(total_counts) >= 2
  /\ evictedTotal
  /\ \E e \in DOMAIN emoji_counts :
       emoji_counts[e] # <<>> /\ emoji_counts[e][1][1] < total_counts[1][1]
  /\ \E i \in DOMAIN total_counts : total_counts[i][2] >= 2

\* --------------------------------------------- claims on progress
Pending(t) == pc[t] = "lock"
Holding(t) == lock = t

\* C21 as stated: every call that has started completes, and every call
\* waiting for the lock gets it.
C21_EveryCallCompletes ==
  \A t \in Threads :
    /\ (pc[t] # "idle") ~> (pc[t] = "idle")
    /\ Pending(t) ~> Holding(t)

\* C21 as amended: a call that holds the lock completes and releases it
\* (the loops of _save_minute_data end), the lock is never held for ever,
\* and while calls wait for the lock some call gets it.
C21_HolderCompletes ==
  /\ \A t \in Threads : Holding(t) ~> (pc[t] = "idle" /\ ~Holding(t))
  /\ (lock # NoThread) ~> (lock = NoThread)
  /\ (\E t \in Threads : Pending(t)) ~> (\E t \in Threads : Holding(t))

C21_Witness ==
  \E t \in Readers :
    /\ pc[t] = "evict_tot"
    /\ Holding(t)
    /\ \A u \in Readers \ {t} : Pending(u)
    /\ Len(total_counts) >= 2
    /\ total_counts[1][1] < Cutoff(last_minute)

====
